---- MODULE Spec2Model ----
(***************************************************************************)
(* Model of src/data-downloader/divvy-data-downloader.py: the discovery    *)
(* loop (get_available_files), the two filters (filter_files_by_year,      *)
(* filter_files_by_quarter) and the download loop of main together with    *)
(* download_file.                                                          *)
(*                                                                         *)
(* A file record keeps the fields the checked properties read: filename,   *)
(* size, year, month.  "url" is urljoin(base_url, filename), a function of *)
(* filename, and "size_mb" is a function of size; neither is read by any   *)
(* branch of the code, so they are not carried.                            *)
(***************************************************************************)
EXTENDS Integers, Sequences, FiniteSets, TLC

VARIABLES
    pc,                   \* position of the running function
    year, month,          \* loop variables of get_available_files
    discovered_files,     \* the list built by get_available_files
    probed,               \* history: candidate -> how its HEAD request answered
    files, arg_year, arg_quarter,   \* arguments of a filter call
    result,               \* what the filter call returned or raised
    filtered_files,       \* main: the selected records
    fs,                   \* output directory: filename -> None or Some(length)
    idx,                  \* main: position of the for loop in filtered_files
    successful_downloads, \* main: the counter
    response_len,         \* download_file: length of the body being streamed
    written,              \* download_file: units written to the open file
    gets,                 \* history: GET requests made for each position
    handled,              \* history: how each finished record ended
    run,                  \* 1 in the first process, 2 in the next one
    prev,                 \* history: how the previous process ended
    partial               \* history: files a crash left partly written

discVars == <<year, month, discovered_files, probed>>
filterVars == <<files, arg_year, arg_quarter, result>>
execVars == <<filtered_files, fs, idx, successful_downloads, response_len,
              written, gets, handled>>
runVars == <<run, prev, partial>>

vars == <<pc, discVars, filterVars, execVars, runVars>>

----------------------------------------------------------------------------
(* Bounds and program constants *)

NumYears == 2       \* years probed: FirstYear .. FirstYear + NumYears - 1
NumMonths == 2      \* months probed per year: 1 .. NumMonths
MaxCatalogLen == 2  \* longest catalog handed to a filter
NumFiles == 2       \* longest selection handed to the download loop
MaxBody == 2        \* longest body, in units of one streamed chunk
FirstYear == 2013   \* range(2013, 2025)

\* an optional integer argument: None, or Some(n)
None == <<>>
Some(n) == <<n>>

\* the outcome of a call: a return value, or an exception
Returned(v) == [kind |-> "returned", value |-> v]
Raised(e) == [kind |-> "raised", value |-> <<e>>]

\* the variables a specification does not use stay at these values
IdleDisc ==
    /\ year = FirstYear
    /\ month = 1
    /\ discovered_files = <<>>
    /\ probed = <<>>
IdleFilter ==
    /\ files = <<>>
    /\ arg_year = None
    /\ arg_quarter = None
    /\ result = Returned(<<>>)
IdleExec ==
    /\ filtered_files = <<>>
    /\ fs = <<>>
    /\ idx = 1
    /\ successful_downloads = 0
    /\ response_len = 0
    /\ written = 0
    /\ gets = <<>>
    /\ handled = <<>>
IdleRun ==
    /\ run = 1
    /\ prev = [kind |-> "none", fs |-> <<>>, successful |-> 0]
    /\ partial = {}

ProbeYears == FirstYear .. (FirstYear + NumYears - 1)
ProbeMonths == 1 .. NumMonths
Grid == ProbeYears \X ProbeMonths

----------------------------------------------------------------------------
(* Strings of a Content-Length header.  A string is a sequence of          *)
(* characters; "sup2" is the character U+00B2 (superscript two), which     *)
(* arrives as the latin-1 byte 0xB2: str.isdigit() accepts it and int()    *)
(* rejects it.  "x" is any character that is no digit.                     *)

DecimalChars == {"0", "1", "2"}
DigitChars == DecimalChars \cup {"sup2"}

DigitValue(c) == CASE c = "0" -> 0 [] c = "1" -> 1 [] c = "2" -> 2

\* str.isdigit(): non-empty and every character has the Unicode digit property
StrIsDigit(s) == Len(s) > 0 /\ \A k \in 1..Len(s) : s[k] \in DigitChars

\* int(s) raises ValueError unless s is a decimal literal
IntRaises(s) == ~(Len(s) > 0 /\ \A k \in 1..Len(s) : s[k] \in DecimalChars)

RECURSIVE IntOfStr(_)
IntOfStr(s) ==
    IF Len(s) = 0 THEN 0
    ELSE 10 * IntOfStr(SubSeq(s, 1, Len(s) - 1)) + DigitValue(s[Len(s)])

\* head_response.headers.get('Content-Length', '0')
HeadersGet(headers, default) ==
    IF headers.present THEN headers.value ELSE default

HeaderValues ==
    { [present |-> FALSE, value |-> <<>>],
      [present |-> TRUE, value |-> <<>>],
      [present |-> TRUE, value |-> <<"0">>],
      [present |-> TRUE, value |-> <<"1", "2">>],
      [present |-> TRUE, value |-> <<"1", "x">>],
      [present |-> TRUE, value |-> <<"sup2">>] }

\* what session.head(url, timeout=5) can do: raise a RequestException, or
\* answer with a status code and headers
HeadOutcomes ==
    { [kind |-> "error", status |-> 0, headers |-> [present |-> FALSE, value |-> <<>>]] }
    \cup
    { [kind |-> "response", status |-> 200, headers |-> h] : h \in HeaderValues }
    \cup
    { [kind |-> "response", status |-> 404, headers |-> [present |-> FALSE, value |-> <<>>]] }

----------------------------------------------------------------------------
(* get_available_files *)

\* f"{year}{month:02d}-divvy-tripdata.zip": the digits YYYYMM followed by a
\* fixed suffix; the name is identified by the number its digits spell
Filename(y, m) == y * 100 + m

FileRecord(y, m, size) ==
    [filename |-> Filename(y, m), size |-> size, year |-> y, month |-> m]

SortKeyLessByMonthFirst(a, b) ==
    \/ a.month < b.month
    \/ a.month = b.month /\ a.year < b.year

\* key=lambda x: (x["year"], x["month"]), compared as tuples
SortKeyLess(a, b) ==
    \/ a.year < b.year
    \/ a.year = b.year /\ a.month < b.month

\* insert r after the last element whose key is not greater (stable)
RECURSIVE InsertByKey(_, _)
InsertByKey(s, r) ==
    IF Len(s) = 0 THEN <<r>>
    ELSE IF SortKeyLess(r, s[Len(s)])
         THEN Append(InsertByKey(SubSeq(s, 1, Len(s) - 1), r), s[Len(s)])
         ELSE Append(s, r)

\* list.sort(key=...): a stable sort by key
RECURSIVE SortFiles(_)
SortFiles(s) ==
    IF Len(s) = 0 THEN <<>>
    ELSE InsertByKey(SortFiles(SubSeq(s, 1, Len(s) - 1)), s[Len(s)])

LastCandidate == year = FirstYear + NumYears - 1 /\ month = NumMonths

\* the loop variables after one more iteration of the inner loop
NextYear == IF month = NumMonths THEN year + 1 ELSE year
NextMonth == IF month = NumMonths THEN 1 ELSE month + 1

\* the end of an iteration that did not raise: the next candidate, or, after
\* the last one, the sort and the return
EndIteration(found) ==
    IF LastCandidate
    THEN /\ discovered_files' = SortFiles(found)
         /\ pc' = "returned"
         /\ UNCHANGED <<year, month>>
    ELSE /\ discovered_files' = found
         /\ pc' = "probe"
         /\ year' = NextYear
         /\ month' = NextMonth

\* one iteration of the inner loop
Probe ==
    /\ pc = "probe"
    /\ \E o \in HeadOutcomes :
         /\ probed' = [probed EXCEPT ![<<year, month>>] =
                          IF o.kind = "error" THEN "error"
                          ELSE IF o.status = 200 THEN "200" ELSE "non200"]
         /\ IF o.kind = "error"
            THEN EndIteration(discovered_files)        \* except ...: pass
            ELSE IF o.status # 200
            THEN EndIteration(discovered_files)
            ELSE LET content_length == HeadersGet(o.headers, <<"0">>) IN
                 IF StrIsDigit(content_length) /\ IntRaises(content_length)
                 THEN \* int() raises ValueError, which the except clause
                      \* for RequestException does not catch
                      /\ pc' = "raised"
                      /\ UNCHANGED <<year, month, discovered_files>>
                 ELSE LET size == IF StrIsDigit(content_length)
                                  THEN IntOfStr(content_length) ELSE 0
                      IN EndIteration(Append(discovered_files,
                                             FileRecord(year, month, size)))
    /\ UNCHANGED <<filterVars, execVars, runVars>>

DiscoveryInit ==
    /\ pc = "probe"
    /\ year = FirstYear
    /\ month = 1
    /\ discovered_files = <<>>
    /\ probed = [c \in Grid |-> "none"]
    /\ IdleFilter /\ IdleExec /\ IdleRun

DiscoveryNext == Probe

DiscoverySpec == DiscoveryInit /\ [][DiscoveryNext]_vars

Has(catalog, y, m) ==
    \E k \in 1..Len(catalog) : catalog[k].year = y /\ catalog[k].month = m

\* C1: every run of get_available_files over the grid returns a catalog, and
\* the catalog holds a record for (year, month) exactly when the HEAD request
\* for that pair answered 200; a request error counts as absence and does
\* not end the run.
C1_CatalogIffStatus200 ==
    /\ pc # "raised"
    /\ pc = "returned" =>
          \A c \in Grid : Has(discovered_files, c[1], c[2]) <=> probed[c] = "200"

\* C2: the returned catalog is strictly ascending by (year, month), hence
\* holds at most one record per pair.
C2_CatalogStrictlyAscending ==
    pc = "returned" =>
        \A k \in 1..(Len(discovered_files) - 1) :
            \/ discovered_files[k].year < discovered_files[k + 1].year
            \/ /\ discovered_files[k].year = discovered_files[k + 1].year
               /\ discovered_files[k].month < discovered_files[k + 1].month

\* a returned catalog with records of both years and of two months of a year
C2_Witness ==
    /\ pc = "returned"
    /\ Len(discovered_files) >= 3
    /\ discovered_files[1].year # discovered_files[Len(discovered_files)].year

----------------------------------------------------------------------------
(* filter_files_by_year, filter_files_by_quarter *)

\* Python truth value of an optional integer: None and 0 are false
Falsy(x) == x = None \/ x = Some(0)

FilterFilesByYear(fl, yr) ==
    IF Falsy(yr) THEN Returned(fl)
    ELSE Returned(SelectSeq(fl, LAMBDA f : f.year = yr[1]))

\* quarter_months
QuarterMonths(q) ==
    CASE q = 1 -> {1, 2, 3}
      [] q = 2 -> {4, 5, 6}
      [] q = 3 -> {7, 8, 9}
      [] q = 4 -> {10, 11, 12}

FilterFilesByQuarter(fl, yr, q) ==
    IF Falsy(yr) \/ Falsy(q) THEN Returned(fl)
    ELSE IF q[1] \notin {1, 2, 3, 4} THEN Raised("ValueError")
    ELSE Returned(SelectSeq(fl, LAMBDA f :
                      f.year = yr[1] /\ f.month \in QuarterMonths(q[1])))

Months == 1 .. 12

\* catalogs as get_available_files returns them: strictly ascending
IsAscending(s) ==
    \A k \in 1..(Len(s) - 1) : SortKeyLess(s[k], s[k + 1])

Catalogs ==
    UNION { { s \in [1..n -> { FileRecord(y, m, 0) : y \in ProbeYears, m \in Months }] :
                IsAscending(s) } : n \in 0..MaxCatalogLen }

YearArgs == {None, Some(0)} \cup { Some(y) : y \in ProbeYears }
QuarterArgs == {None} \cup { Some(q) : q \in (-1)..5 }

CallFilterByYear ==
    /\ pc = "call"
    /\ result' = FilterFilesByYear(files, arg_year)
    /\ pc' = "year_done"
    /\ UNCHANGED <<files, arg_year, arg_quarter>>
    /\ UNCHANGED <<discVars, execVars, runVars>>

CallFilterByQuarter ==
    /\ pc = "call"
    /\ result' = FilterFilesByQuarter(files, arg_year, arg_quarter)
    /\ pc' = "quarter_done"
    /\ UNCHANGED <<files, arg_year, arg_quarter>>
    /\ UNCHANGED <<discVars, execVars, runVars>>

FilterInit ==
    /\ pc = "call"
    /\ files \in Catalogs
    /\ arg_year \in YearArgs
    /\ arg_quarter \in QuarterArgs
    /\ result = Returned(<<>>)
    /\ IdleDisc /\ IdleExec /\ IdleRun

FilterNext == CallFilterByYear \/ CallFilterByQuarter

FilterSpec == FilterInit /\ [][FilterNext]_vars

\* C3: filter_files_by_year returns, for every integer year, exactly the
\* records of that year in their original order, and for None the catalog
\* itself.
C3_FilterByYearExact ==
    pc = "year_done" =>
        /\ result.kind = "returned"
        /\ result.value = IF arg_year = None THEN files
                          ELSE SelectSeq(files, LAMBDA f : f.year = arg_year[1])

\* C4: given a year and a quarter q in 1..4, filter_files_by_quarter returns
\* exactly the records of that year whose month is in {3q-2, 3q-1, 3q}, in
\* their original order.
C4_FilterByQuarterExact ==
    (/\ pc = "quarter_done"
     /\ arg_year # None
     /\ arg_quarter \in { Some(q) : q \in 1..4 })
    => /\ result.kind = "returned"
       /\ result.value =
            SelectSeq(files, LAMBDA f :
                /\ f.year = arg_year[1]
                /\ f.month \in { 3 * arg_quarter[1] - 2, 3 * arg_quarter[1] - 1,
                                 3 * arg_quarter[1] })

\* C5: given a year and an integer quarter outside 1..4,
\* filter_files_by_quarter raises ValueError.
C5_BadQuarterRaises ==
    (/\ pc = "quarter_done"
     /\ arg_year # None
     /\ arg_quarter # None
     /\ arg_quarter[1] \notin 1..4)
    => result = Raised("ValueError")

----------------------------------------------------------------------------
(* main: the download loop, and download_file *)

\* os.path.exists(output_path)
Exists(local) == local # None

\* os.path.getsize(output_path)
GetSize(local) == local[1]

SkipRuleOnMismatch(local, file) ==
    Exists(local) /\ GetSize(local) # file.size

\* os.path.exists(output_path) and os.path.getsize(output_path) == file["size"]
SkipRule(local, file) ==
    Exists(local) /\ GetSize(local) = file.size

KeepPartialFile(f, name) == f

\* if os.path.exists(output_path): os.remove(output_path)
RemoveIfExists(f, name) ==
    IF Exists(f[name]) THEN [f EXCEPT ![name] = None] ELSE f

CountAlways(n, ok) == n + 1

\* if download_file(...): successful_downloads += 1
CountDownload(n, ok) == IF ok THEN n + 1 ELSE n

File == filtered_files[idx]
Path == filtered_files[idx].filename

\* what the statements before open() can do: os.makedirs raises, session.get
\* raises, raise_for_status raises, int() of the Content-Length header
\* raises, or all succeed
RequestOutcomes ==
    {"makedirs_error", "request_error", "bad_status", "bad_length", "ok"}

\* the body of the GET response: as long as the HEAD request declared, or of
\* any length when the HEAD request declared none (size 0)
BodyLengths(file) ==
    IF file.size > 0 THEN {file.size} ELSE 0..MaxBody

\* the loop is over: the summary line
Summary ==
    /\ pc = "for"
    /\ idx > Len(filtered_files)
    /\ pc' = "done"
    /\ UNCHANGED <<discVars, filterVars, execVars, runVars>>

\* an iteration that ends at "continue"
Skip ==
    /\ pc = "for"
    /\ idx <= Len(filtered_files)
    /\ SkipRule(fs[Path], File)
    /\ successful_downloads' = successful_downloads + 1
    /\ idx' = idx + 1
    /\ handled' = Append(handled, [filename |-> Path, how |-> "skipped"])
    /\ UNCHANGED <<pc, filtered_files, fs, response_len, written, gets>>
    /\ UNCHANGED <<discVars, filterVars, runVars>>

\* an iteration that calls download_file
StartDownload ==
    /\ pc = "for"
    /\ idx <= Len(filtered_files)
    /\ ~SkipRule(fs[Path], File)
    /\ pc' = "dl_request"
    /\ written' = 0
    /\ UNCHANGED <<filtered_files, fs, idx, successful_downloads, response_len,
                   gets, handled>>
    /\ UNCHANGED <<discVars, filterVars, runVars>>

\* download_file up to total_size = ...
DlRequest ==
    /\ pc = "dl_request"
    /\ \E o \in RequestOutcomes :
         /\ gets' = IF o = "makedirs_error" THEN gets
                    ELSE [gets EXCEPT ![idx] = @ + 1]
         /\ IF o = "ok"
            THEN /\ pc' = "dl_open"
                 /\ response_len' \in BodyLengths(File)
            ELSE /\ pc' = "dl_except"
                 /\ UNCHANGED response_len
    /\ UNCHANGED <<filtered_files, fs, idx, successful_downloads, written, handled>>
    /\ UNCHANGED <<discVars, filterVars, runVars>>

\* open(output_path, 'wb'): creates or truncates the file, or raises
DlOpen ==
    /\ pc = "dl_open"
    /\ \/ /\ fs' = [fs EXCEPT ![Path] = Some(0)]
          /\ pc' = "dl_write"
       \/ /\ pc' = "dl_except"
          /\ UNCHANGED fs
    /\ UNCHANGED <<filtered_files, idx, successful_downloads, response_len,
                   written, gets, handled>>
    /\ UNCHANGED <<discVars, filterVars, runVars>>

\* one chunk of the body arrives and is written
DlWriteChunk ==
    /\ pc = "dl_write"
    /\ written < response_len
    /\ written' = written + 1
    /\ fs' = [fs EXCEPT ![Path] = Some(written + 1)]
    /\ UNCHANGED <<pc, filtered_files, idx, successful_downloads, response_len,
                   gets, handled>>
    /\ UNCHANGED <<discVars, filterVars, runVars>>

\* iter_content or f.write raises; the with statement closes the file
DlWriteFail ==
    /\ pc = "dl_write"
    /\ pc' = "dl_except"
    /\ UNCHANGED execVars
    /\ UNCHANGED <<discVars, filterVars, runVars>>

\* the body is complete: return True, and main counts the download
DlReturnTrue ==
    /\ pc = "dl_write"
    /\ written = response_len
    /\ successful_downloads' = CountDownload(successful_downloads, TRUE)
    /\ idx' = idx + 1
    /\ handled' = Append(handled, [filename |-> Path, how |-> "True"])
    /\ pc' = "for"
    /\ UNCHANGED <<filtered_files, fs, response_len, written, gets>>
    /\ UNCHANGED <<discVars, filterVars, runVars>>

\* except Exception: remove the file, return False, and main goes on
DlExcept ==
    /\ pc = "dl_except"
    /\ fs' = RemoveIfExists(fs, Path)
    /\ successful_downloads' = CountDownload(successful_downloads, FALSE)
    /\ idx' = idx + 1
    /\ handled' = Append(handled, [filename |-> Path, how |-> "False"])
    /\ pc' = "for"
    /\ UNCHANGED <<filtered_files, response_len, written, gets>>
    /\ UNCHANGED <<discVars, filterVars, runVars>>

\* the selections main can reach the loop with: non-empty, ascending
Selections ==
    UNION { { [k \in 1..n |-> FileRecord(FirstYear, k, sz[k])] :
                sz \in [1..n -> 0..MaxBody] } : n \in 1..NumFiles }

ExecInit ==
    /\ pc = "for"
    /\ filtered_files \in Selections
    /\ fs \in [{ filtered_files[k].filename : k \in 1..Len(filtered_files) }
                 -> {None} \cup { Some(n) : n \in 0..MaxBody }]
    /\ idx = 1
    /\ successful_downloads = 0
    /\ response_len = 0
    /\ written = 0
    /\ gets = [k \in 1..Len(filtered_files) |-> 0]
    /\ handled = <<>>
    /\ IdleDisc /\ IdleFilter /\ IdleRun

Next ==
    \/ Summary \/ Skip \/ StartDownload
    \/ DlRequest \/ DlOpen \/ DlWriteChunk \/ DlWriteFail \/ DlReturnTrue
    \/ DlExcept

Spec == ExecInit /\ [][Next]_vars

----------------------------------------------------------------------------
(* A second process: the program is started again on the same catalog and  *)
(* the same output directory, after the first one finished or was killed.  *)

\* main starts again after a finished run
Rerun ==
    /\ pc = "done"
    /\ run = 1
    /\ run' = 2
    /\ prev' = [kind |-> "finished", fs |-> fs, successful |-> successful_downloads]
    /\ pc' = "for"
    /\ idx' = 1
    /\ successful_downloads' = 0
    /\ response_len' = 0
    /\ written' = 0
    /\ gets' = [k \in 1..Len(filtered_files) |-> 0]
    /\ handled' = <<>>
    /\ UNCHANGED <<filtered_files, fs, partial>>
    /\ UNCHANGED <<discVars, filterVars>>

\* the process is killed while the body is being written: no except clause
\* runs, the file keeps what reached the disk (writes still buffered are
\* lost), and main starts again
Crash ==
    /\ pc = "dl_write"
    /\ run = 1
    /\ written < response_len
    /\ \E on_disk \in 0..written :
         /\ fs' = [fs EXCEPT ![Path] = Some(on_disk)]
         /\ prev' = [kind |-> "crashed", fs |-> fs', successful |-> successful_downloads]
    /\ partial' = {Path}
    /\ run' = 2
    /\ pc' = "for"
    /\ idx' = 1
    /\ successful_downloads' = 0
    /\ response_len' = 0
    /\ written' = 0
    /\ gets' = [k \in 1..Len(filtered_files) |-> 0]
    /\ handled' = <<>>
    /\ UNCHANGED filtered_files
    /\ UNCHANGED <<discVars, filterVars>>

RerunNext == Next \/ Rerun \/ Crash

RerunSpec == ExecInit /\ [][RerunNext]_vars

----------------------------------------------------------------------------
(* Properties of the download loop *)

\* C6: when the local file exists and its length equals the record's size,
\* the iteration makes no request, leaves the directory as it is, counts the
\* record as a success and goes on to the next record.
C6_SkipRule ==
    [][ (/\ pc = "for"
         /\ idx <= Len(filtered_files)
         /\ Exists(fs[Path])
         /\ GetSize(fs[Path]) = File.size)
        => (/\ gets' = gets
            /\ fs' = fs
            /\ successful_downloads' = successful_downloads + 1
            /\ pc' = "for"
            /\ idx' = idx + 1) ]_vars

\* a record of non-zero size was skipped
C6_Witness ==
    \E k \in 1..Len(handled) :
        /\ handled[k].how = "skipped"
        /\ filtered_files[k].size > 0
        /\ gets[k] = 0

Successes == { k \in 1..Len(handled) : handled[k].how \in {"skipped", "True"} }

C8_Inv ==
    /\ Len(handled) = idx - 1
    /\ \A k \in 1..Len(handled) : handled[k].filename = filtered_files[k].filename
    /\ \A k \in 1..Len(filtered_files) :
         /\ gets[k] <= 1
         /\ (k > idx \/ (k <= Len(handled) /\ handled[k].how = "skipped")) => gets[k] = 0
    /\ successful_downloads = Cardinality(Successes)
    /\ successful_downloads <= Len(filtered_files)
    /\ pc = "done" => Len(handled) = Len(filtered_files)
    /\ pc = "done" \/ ENABLED Next

\* steps left before the summary, at most
StepsPerFile == MaxBody + 5
Measure ==
    LET base == (Len(filtered_files) - idx) * StepsPerFile + 1 IN
    CASE pc = "done" -> 0
      [] pc = "for" -> base + StepsPerFile
      [] pc = "dl_request" -> base + MaxBody + 4
      [] pc = "dl_open" -> base + MaxBody + 3
      [] pc = "dl_write" -> base + 2 + response_len - written
      [] pc = "dl_except" -> base + 1

C9_PartialFileNotSkipped ==
    \A k \in 1..Len(handled) :
        handled[k].filename \in partial => handled[k].how # "skipped"

\* C10: when a run ended with every selected record counted as a success,
\* the next run makes no request, leaves every local file as it was and
\* reports the same count.
C10_RerunIdempotent ==
    (/\ run = 2
     /\ pc = "done"
     /\ prev.kind = "finished"
     /\ prev.successful = Len(filtered_files))
    => /\ \A k \in 1..Len(filtered_files) : gets[k] = 0
       /\ fs = prev.fs
       /\ successful_downloads = prev.successful

====
